---- MODULE Spec2Model ----
(***************************************************************************)
(* CrateCheck (cratecheck.py): a sequential runner over a static checklist *)
(* of external commands and file-presence checks.  The model follows the   *)
(* control flow of main -> CrateChecker.run_all_checks -> the six phase    *)
(* functions -> run_command / print_summary, one step per run_command      *)
(* invocation.                                                             *)
(***************************************************************************)
EXTENDS Integers, Sequences, FiniteSets, TLC

(* ------------------------------ bounds --------------------------------- *)

\* Largest number of command checks of one run that do not exit with 0.
MaxFaults == 3

(* ------------------------- program constants --------------------------- *)

\* subprocess.run(..., timeout=300)
TIMEOUT == 300

\* An absent optional value (Python None / "not yet produced") and a present one.
None == << >>
Some(v) == << v >>

\* CrateChecker.check_prerequisites: tools
tools ==
    << << <<"cargo", "--version">>, "Cargo availability" >>,
       << <<"rustc", "--version">>, "Rust compiler availability" >>,
       << <<"git", "--version">>, "Git availability" >> >>

\* CrateChecker.core_compilation_tests: checks
core_checks ==
    << << <<"cargo", "check">>, "Basic compilation check" >>,
       << <<"cargo", "build">>, "Full build" >>,
       << <<"cargo", "build", "--release">>, "Release build" >>,
       << <<"cargo", "test">>, "All tests" >>,
       << <<"cargo", "test", "--all-targets">>, "All targets tests" >> >>

\* CrateChecker.code_quality_checks: checks
quality_checks ==
    << << <<"cargo", "fmt", "--all", "--check">>, "Code formatting" >>,
       << <<"cargo", "clippy", "--all-targets", "--all-features", "--", "-D", "warnings">>,
          "Clippy linting" >>,
       << <<"cargo", "check", "--all-targets", "--all-features">>, "All features check" >> >>

\* CrateChecker.documentation_checks: checks
doc_checks ==
    << << <<"cargo", "doc", "--no-deps">>, "Basic documentation" >>,
       << <<"cargo", "doc", "--all-features", "--no-deps">>,
          "Documentation with all features" >> >>

\* CrateChecker.package_validation: checks
package_checks ==
    << << <<"cargo", "package", "--list">>, "Package file list" >>,
       << <<"cargo", "package", "--allow-dirty">>, "Package creation" >> >>

\* CrateChecker.metadata_checks: required_files
required_files ==
    << <<"Cargo.toml", "Cargo manifest">>,
       <<"README.md", "README file">>,
       <<"LICENSE", "License file">> >>

\* metadata_checks: the list in `if filename in ["Cargo.toml"]`
critical_files == {"Cargo.toml"}

\* The phase functions in the order run_all_checks calls them.
PhaseOrder == <<"prereq", "core", "quality", "docs", "package", "metadata">>

Phases == {PhaseOrder[i] : i \in 1..Len(PhaseOrder)}

\* The command phases and their check tables.
CommandTable ==
    [prereq |-> tools, core |-> core_checks, quality |-> quality_checks,
     docs |-> doc_checks, package |-> package_checks]

\* The critical= argument each phase function passes to run_command.
CriticalFlag ==
    [prereq |-> TRUE, core |-> TRUE, quality |-> TRUE,
     docs |-> FALSE, package |-> FALSE]

(* --------------------------- environment ------------------------------- *)

\* What str(e) can be when subprocess.run raises something other than
\* TimeoutExpired (binary not found, permission denied, ...).
ErrTexts == {"[Errno 2] No such file or directory"}

\* How long a spawned child runs, in seconds, if it is left alone.
Durations == {1, TIMEOUT + 1}

\* One execution of subprocess.run: either the spawn raises, or the child
\* runs for `duration` seconds and would exit with `returncode`.
Behaviours ==
    [kind : {"raised"}, text : ErrTexts, duration : {0}, returncode : {0}]
    \cup
    [kind : {"spawned"}, text : {""}, duration : Durations, returncode : {0, 1}]

\* The working directory: which of the required files exist.
FileNames == {required_files[i][1] : i \in 1..Len(required_files)}

\* sys.argv[1:] of the invocation, reduced to what main looks at.
Argvs == {<< >>, <<"-h">>, <<"--help">>}

(* ------------------------------ state ---------------------------------- *)

VARIABLES
    argv,           \* sys.argv[1:]
    files,          \* the required files that exist in the working directory
    pc,             \* position of the run: "main", a phase, "summary", "returned", "exited"
    idx,            \* position of the running phase function's for loop (1-based)
    all_passed,     \* the running phase function's all_good / all_passed local
    checks_passed,  \* run_all_checks' checks_passed local
    total_checks,   \* CrateChecker.total_checks
    passed_checks,  \* CrateChecker.passed_checks
    failed_checks,  \* CrateChecker.failed_checks (the critical failures)
    warnings,       \* CrateChecker.warnings
    last_run,       \* what the latest subprocess.run did (None before the first)
    children,       \* number of child processes still running
    invoked,        \* descriptions of the checks invoked so far, in order
    phase_ret,      \* return value of each phase function (None until it returns)
    stdout,         \* the headline lines printed by main / run_all_checks / print_summary
    summary,        \* the counts and lists print_summary rendered (None before)
    ret,            \* return value of run_all_checks (None until it returns)
    exit_code       \* the process exit code (None while the process runs)

vars ==
    << argv, files, pc, idx, all_passed, checks_passed, total_checks,
       passed_checks, failed_checks, warnings, last_run, children, invoked,
       phase_ret, stdout, summary, ret, exit_code >>

\* The checker object's counters and lists as one value.
self ==
    [total_checks |-> total_checks, passed_checks |-> passed_checks,
     failed_checks |-> failed_checks, warnings |-> warnings]

(* --------------------------- run_command ------------------------------- *)

\* Which branch of run_command one execution of subprocess.run ends in.
Classify(b) ==
    IF b.kind = "raised" THEN "error"
    ELSE IF b.duration > TIMEOUT THEN "timeout"
    ELSE IF b.returncode = 0 THEN "passed"
    ELSE "failed"

\* error_msg with the timeout branch reusing the label of the non-zero exit.
error_msg_untagged(description, b) ==
    IF Classify(b) = "error" THEN description \o " - ERROR: " \o b.text
    ELSE description \o " - FAILED"

\* error_msg of the three failure branches.
error_msg(description, b) ==
    IF Classify(b) = "timeout" THEN description \o " - TIMEOUT"
    ELSE IF Classify(b) = "error" THEN description \o " - ERROR: " \o b.text
    ELSE description \o " - FAILED"

\* route_failure with the critical flag ignored.
route_failure_always_critical(rs, msg, critical) ==
    [rs EXCEPT !.failed_checks = Append(@, msg)]

\* `if critical: failed_checks.append(error_msg) else: warnings.append(error_msg)`
route_failure(rs, msg, critical) ==
    IF critical
    THEN [rs EXCEPT !.failed_checks = Append(@, msg)]
    ELSE [rs EXCEPT !.warnings = Append(@, msg)]

\* run_command with `self.total_checks += 1` moved after subprocess.run, so
\* that a timeout or another exception skips it.
run_command_effect_uncounted(rs, description, critical, b) ==
    IF Classify(b) = "passed"
    THEN [rs EXCEPT !.total_checks = @ + 1, !.passed_checks = @ + 1]
    ELSE IF Classify(b) = "failed"
    THEN route_failure([rs EXCEPT !.total_checks = @ + 1],
                       description \o " - FAILED", critical)
    ELSE route_failure(rs, error_msg(description, b), critical)

\* The checker's fields after run_command(cmd, description, critical) whose
\* subprocess.run behaved as b.
run_command_effect(rs, description, critical, b) ==
    LET counted == [rs EXCEPT !.total_checks = @ + 1]
    IN  IF Classify(b) = "passed"
        THEN [counted EXCEPT !.passed_checks = @ + 1]
        ELSE route_failure(counted, error_msg(description, b), critical)

\* The first component of run_command's return value.
run_command_success(b) == Classify(b) = "passed"

\* Child processes alive after subprocess.run returns or raises: a spawned
\* child is waited for, and on timeout killed and then waited for.
children_after(n, b) ==
    LET spawned == IF b.kind = "spawned" THEN n + 1 ELSE n
    IN  IF b.kind = "spawned" THEN spawned - 1 ELSE spawned

\* One call of run_command from the loop of phase function p.
run_command(p) ==
    \E b \in Behaviours :
        LET description == CommandTable[p][idx][2]
            after == run_command_effect(self, description, CriticalFlag[p], b)
        IN  /\ Classify(b) # "passed"
                => Len(failed_checks) + Len(warnings) < MaxFaults
            /\ total_checks' = after.total_checks
            /\ passed_checks' = after.passed_checks
            /\ failed_checks' = after.failed_checks
            /\ warnings' = after.warnings
            /\ last_run' = Some(b)
            /\ children' = children_after(children, b)
            /\ invoked' = Append(invoked, description)
            /\ all_passed' = IF run_command_success(b) THEN all_passed ELSE FALSE
            /\ idx' = idx + 1

(* -------------------------- phase functions ---------------------------- *)

\* One iteration of the for loop of command phase p.
PhaseLoop(p) ==
    /\ pc = p
    /\ idx <= Len(CommandTable[p])
    /\ run_command(p)
    /\ UNCHANGED << argv, files, pc, checks_passed, phase_ret, stdout,
                    summary, ret, exit_code >>

\* run_all_checks without the early return.
after_prerequisites_ignored(all_good) == "core"

\* Where run_all_checks goes after check_prerequisites returned all_good.
after_prerequisites(all_good) ==
    IF ~all_good THEN "returned" ELSE "core"

\* run_all_checks without the call of documentation_checks.
next_phase_skipping(p) ==
    CASE p = "core" -> "quality"
      [] p = "quality" -> "package"
      [] p = "docs" -> "package"
      [] p = "package" -> "metadata"
      [] p = "metadata" -> "summary"

\* The statement of run_all_checks that follows the call of phase p.
next_phase(p) ==
    CASE p = "core" -> "quality"
      [] p = "quality" -> "docs"
      [] p = "docs" -> "package"
      [] p = "package" -> "metadata"
      [] p = "metadata" -> "summary"

\* check_prerequisites returns and run_all_checks tests the result.
PrerequisitesReturn ==
    /\ pc = "prereq"
    /\ idx > Len(tools)
    /\ phase_ret' = [phase_ret EXCEPT !["prereq"] = Some(all_passed)]
    /\ pc' = after_prerequisites(all_passed)
    /\ IF after_prerequisites(all_passed) = "returned"
       THEN /\ stdout' = Append(stdout, "Prerequisites failed. Cannot continue.")
            /\ ret' = Some(FALSE)
            /\ UNCHANGED << idx, all_passed >>
       ELSE /\ idx' = 1
            /\ all_passed' = TRUE
            /\ UNCHANGED << stdout, ret >>
    /\ UNCHANGED << argv, files, checks_passed, total_checks, passed_checks,
                    failed_checks, warnings, last_run, children, invoked,
                    summary, exit_code >>

\* Command phase p returns and run_all_checks does `checks_passed &= ...`.
PhaseReturn(p) ==
    /\ pc = p
    /\ idx > Len(CommandTable[p])
    /\ phase_ret' = [phase_ret EXCEPT ![p] = Some(all_passed)]
    /\ checks_passed' = (checks_passed /\ all_passed)
    /\ pc' = next_phase(p)
    /\ idx' = 1
    /\ all_passed' = TRUE
    /\ UNCHANGED << argv, files, total_checks, passed_checks, failed_checks,
                    warnings, last_run, children, invoked, stdout, summary,
                    ret, exit_code >>

check_prerequisites == PhaseLoop("prereq") \/ PrerequisitesReturn

core_compilation_tests == PhaseLoop("core") \/ PhaseReturn("core")

code_quality_checks == PhaseLoop("quality") \/ PhaseReturn("quality")

documentation_checks == PhaseLoop("docs") \/ PhaseReturn("docs")

package_validation == PhaseLoop("package") \/ PhaseReturn("package")

\* metadata_checks with `self.total_checks += 1` indented into the else branch.
RECURSIVE metadata_loop_uncounted(_, _, _)
metadata_loop_uncounted(i, st, fs) ==
    IF i > Len(required_files) THEN st
    ELSE LET filename == required_files[i][1]
             desc == required_files[i][2]
             checked ==
                 IF filename \in fs
                 THEN [st EXCEPT !.rs.passed_checks = @ + 1]
                 ELSE [st EXCEPT
                         !.rs.warnings = Append(@, desc \o " missing"),
                         !.all_passed = IF filename \in critical_files
                                        THEN FALSE ELSE @,
                         !.rs.total_checks = @ + 1]
         IN  metadata_loop_uncounted(i + 1, checked, fs)

\* The for loop of metadata_checks from required_files[i] on; st holds the
\* checker's fields and the local all_passed.
RECURSIVE metadata_loop(_, _, _)
metadata_loop(i, st, fs) ==
    IF i > Len(required_files) THEN st
    ELSE LET filename == required_files[i][1]
             desc == required_files[i][2]
             checked ==
                 IF filename \in fs
                 THEN [st EXCEPT !.rs.passed_checks = @ + 1]
                 ELSE [st EXCEPT
                         !.rs.warnings = Append(@, desc \o " missing"),
                         !.all_passed = IF filename \in critical_files
                                        THEN FALSE ELSE @]
         IN  metadata_loop(i + 1,
                           [checked EXCEPT !.rs.total_checks = @ + 1], fs)

\* The descriptions of the metadata checks, in the order they are made.
metadata_descriptions == [i \in 1..Len(required_files) |-> required_files[i][2]]

metadata_checks ==
    /\ pc = "metadata"
    /\ LET after == metadata_loop(1, [rs |-> self, all_passed |-> TRUE], files)
       IN  /\ total_checks' = after.rs.total_checks
           /\ passed_checks' = after.rs.passed_checks
           /\ failed_checks' = after.rs.failed_checks
           /\ warnings' = after.rs.warnings
           /\ all_passed' = after.all_passed
           /\ phase_ret' = [phase_ret EXCEPT !["metadata"] = Some(after.all_passed)]
           /\ checks_passed' = (checks_passed /\ after.all_passed)
    /\ invoked' = invoked \o metadata_descriptions
    /\ pc' = next_phase("metadata")
    /\ UNCHANGED << argv, files, idx, last_run, children, stdout, summary,
                    ret, exit_code >>

(* ----------------------------- summary --------------------------------- *)

\* print_summary with the elif testing `not self.warnings`.
verdict_lines_swapped(failed, warned) ==
    IF failed = << >> /\ warned = << >>
    THEN << "CRATE IS READY FOR CRATES.IO RELEASE!" >>
    ELSE IF failed # << >> /\ warned = << >>
    THEN << "CRATE NOT READY - WARNINGS MUST BE FIXED" >>
    ELSE << "CRATE NOT READY FOR RELEASE" >>

\* The verdict headlines print_summary prints for the two lists.
verdict_lines(failed, warned) ==
    IF failed = << >> /\ warned = << >>
    THEN << "CRATE IS READY FOR CRATES.IO RELEASE!" >>
    ELSE IF failed = << >> /\ warned # << >>
    THEN << "CRATE NOT READY - WARNINGS MUST BE FIXED" >>
    ELSE << "CRATE NOT READY FOR RELEASE" >>

\* print_summary returning True when only warnings were recorded.
summary_result_lenient(failed, warned) ==
    IF failed = << >> /\ warned = << >> THEN TRUE
    ELSE IF failed = << >> /\ warned # << >> THEN TRUE
    ELSE FALSE

\* The return value of print_summary for the two lists.
summary_result(failed, warned) ==
    IF failed = << >> /\ warned = << >> THEN TRUE
    ELSE IF failed = << >> /\ warned # << >> THEN FALSE
    ELSE FALSE

print_summary ==
    /\ pc = "summary"
    /\ summary' = Some([total |-> total_checks, passed |-> passed_checks,
                        failed |-> Len(failed_checks), warned |-> Len(warnings),
                        failures |-> failed_checks, warning_list |-> warnings])
    /\ stdout' = (stdout \o << "FINAL SUMMARY" >>)
                     \o verdict_lines(failed_checks, warnings)
    /\ ret' = Some(summary_result(failed_checks, warnings))
    /\ pc' = "returned"
    /\ UNCHANGED << argv, files, idx, all_passed, checks_passed, total_checks,
                    passed_checks, failed_checks, warnings, last_run, children,
                    invoked, phase_ret, exit_code >>

(* ------------------------------- main ---------------------------------- *)

\* `len(sys.argv) > 1 and sys.argv[1] in ["-h", "--help"]`
is_help(args) == Len(args) > 0 /\ args[1] \in {"-h", "--help"}

\* main exiting with 0 whatever run_all_checks returned.
exit_status_always_zero(success) == 0

\* `sys.exit(0 if success else 1)`
exit_status(success) == IF success THEN 0 ELSE 1

\* main with the help flag: print the usage and return.
main_help ==
    /\ pc = "main"
    /\ is_help(argv)
    /\ stdout' = Append(stdout, "Usage: python cratecheck.py")
    /\ exit_code' = Some(0)
    /\ pc' = "exited"
    /\ UNCHANGED << argv, files, idx, all_passed, checks_passed, total_checks,
                    passed_checks, failed_checks, warnings, last_run, children,
                    invoked, phase_ret, summary, ret >>

\* main constructs the checker and run_all_checks starts the first phase.
run_all_checks ==
    /\ pc = "main"
    /\ ~is_help(argv)
    /\ checks_passed' = TRUE
    /\ pc' = "prereq"
    /\ idx' = 1
    /\ all_passed' = TRUE
    /\ UNCHANGED << argv, files, total_checks, passed_checks, failed_checks,
                    warnings, last_run, children, invoked, phase_ret, stdout,
                    summary, ret, exit_code >>

\* main exits with the code for run_all_checks' result.
main_exit ==
    /\ pc = "returned"
    /\ exit_code' = Some(exit_status(ret[1]))
    /\ pc' = "exited"
    /\ UNCHANGED << argv, files, idx, all_passed, checks_passed, total_checks,
                    passed_checks, failed_checks, warnings, last_run, children,
                    invoked, phase_ret, stdout, summary, ret >>

(* ------------------------- the specification --------------------------- *)

\* CrateChecker.__init__ and the process start.
Init ==
    /\ argv \in Argvs
    /\ files \in SUBSET FileNames
    /\ pc = "main"
    /\ idx = 1
    /\ all_passed = TRUE
    /\ checks_passed = TRUE
    /\ total_checks = 0
    /\ passed_checks = 0
    /\ failed_checks = << >>
    /\ warnings = << >>
    /\ last_run = None
    /\ children = 0
    /\ invoked = << >>
    /\ phase_ret = [p \in Phases |-> None]
    /\ stdout = << >>
    /\ summary = None
    /\ ret = None
    /\ exit_code = None

Next ==
    \/ main_help
    \/ run_all_checks
    \/ check_prerequisites
    \/ core_compilation_tests
    \/ code_quality_checks
    \/ documentation_checks
    \/ package_validation
    \/ metadata_checks
    \/ print_summary
    \/ main_exit

Spec == Init /\ [][Next]_vars

TypeOK ==
    /\ argv \in Argvs
    /\ files \subseteq FileNames
    /\ pc \in Phases \cup {"main", "summary", "returned", "exited"}
    /\ idx \in 1..6
    /\ all_passed \in BOOLEAN
    /\ checks_passed \in BOOLEAN
    /\ total_checks \in 0..18
    /\ passed_checks \in 0..18
    /\ Len(failed_checks) <= 18
    /\ Len(warnings) <= 18
    /\ last_run = None \/ last_run[1] \in Behaviours
    /\ children \in 0..1
    /\ Len(invoked) <= 18
    /\ \A p \in Phases : phase_ret[p] = None \/ phase_ret[p][1] \in BOOLEAN
    /\ ret = None \/ ret[1] \in BOOLEAN
    /\ exit_code = None \/ exit_code[1] \in {0, 1}

(* --------------------------- properties -------------------------------- *)

Range(s) == {s[i] : i \in 1..Len(s)}

IsPrefix(s, t) == Len(s) <= Len(t) /\ SubSeq(t, 1, Len(s)) = s

\* s2 is s1 with exactly one element added at the end.
OneAppended(s1, s2) == Len(s2) = Len(s1) + 1 /\ SubSeq(s2, 1, Len(s1)) = s1

Descriptions(table) == [i \in 1..Len(table) |-> table[i][2]]

\* Every check of the run, in the order of the phases and of their tables.
AllDescriptions ==
    Descriptions(tools) \o Descriptions(core_checks) \o Descriptions(quality_checks)
        \o Descriptions(doc_checks) \o Descriptions(package_checks)
        \o metadata_descriptions

\* The three verdict headlines of print_summary.
ReadyLine == "CRATE IS READY FOR CRATES.IO RELEASE!"
WarningsLine == "CRATE NOT READY - WARNINGS MUST BE FIXED"
FailuresLine == "CRATE NOT READY FOR RELEASE"
VerdictLines == {ReadyLine, WarningsLine, FailuresLine}
AbortLine == "Prerequisites failed. Cannot continue."

\* The verdict headlines printed so far, in order.
PrintedVerdicts == SelectSeq(stdout, LAMBDA l : l \in VerdictLines)

\* The step is one invocation of run_command.
RunCommandStep == Len(invoked') = Len(invoked) + 1

\* The step is the metadata phase.
MetadataStep == pc = "metadata" /\ pc' # "metadata"

\* A full run: main was not asked for the usage text.
FullRun == ~is_help(argv)

\* C1: after every recorded check, total_checks equals passed_checks plus the
\* number of critical failures plus the number of warnings.
C1_CountsBalance ==
    total_checks = passed_checks + Len(failed_checks) + Len(warnings)

C1_Witness ==
    /\ total_checks = 18
    /\ passed_checks > 0
    /\ Len(failed_checks) > 0
    /\ Len(warnings) > 1
    /\ \E i \in 1..Len(failed_checks) : failed_checks[i] = "All tests - TIMEOUT"

\* C2: a full run exits with 0 exactly when it reached the summary with no
\* critical failure and no warning, and with 1 otherwise (warnings only,
\* critical failures, abort at the prerequisites).
C2_ExitCode ==
    (pc = "exited" /\ FullRun) =>
        /\ exit_code \in {Some(0), Some(1)}
        /\ exit_code = Some(0)
               <=> (summary # None /\ failed_checks = << >> /\ warnings = << >>)
        /\ (failed_checks = << >> /\ warnings # << >>) => exit_code = Some(1)
        /\ failed_checks # << >> => exit_code = Some(1)
        /\ summary = None => exit_code = Some(1)

C2_Witness ==
    /\ pc = "exited"
    /\ FullRun
    /\ exit_code = Some(0)
    /\ total_checks = 18

\* The labels a failed prerequisite check leaves in the lists.
PrerequisiteLabels ==
    {tools[i][2] \o suffix : i \in 1..Len(tools),
         suffix \in {" - FAILED", " - TIMEOUT"}
                      \cup {" - ERROR: " \o t : t \in ErrTexts}}

PrerequisiteFailed ==
    \E l \in Range(failed_checks) \cup Range(warnings) : l \in PrerequisiteLabels

\* C3: once a prerequisite check (the git check or another one) has failed,
\* no check of a later phase is invoked, total_checks ends at the number of
\* prerequisite checks, and the exit code is 1.
C3_PrerequisiteAbort ==
    PrerequisiteFailed =>
        /\ IsPrefix(invoked, Descriptions(tools))
        /\ total_checks <= Len(tools)
        /\ pc \in {"prereq", "returned", "exited"}
        /\ summary = None
        /\ pc \in {"returned", "exited"} => total_checks = Len(tools)
        /\ pc = "exited" => exit_code = Some(1)

C3_Witness ==
    /\ pc = "exited"
    /\ failed_checks = << "Git availability - FAILED" >>
    /\ total_checks = 3

\* C4: a missing Cargo.toml is recorded as a critical failure (and alone gives
\* the "fix failures" verdict); a missing README.md or LICENSE is a warning.
C4_MissingManifestCritical ==
    phase_ret["metadata"] # None =>
        /\ "Cargo.toml" \notin files
               => /\ "Cargo manifest missing" \in Range(failed_checks)
                  /\ summary # None => PrintedVerdicts = << FailuresLine >>
        /\ "README.md" \notin files => "README file missing" \in Range(warnings)
        /\ "LICENSE" \notin files => "License file missing" \in Range(warnings)

\* C5 as stated: every run that executed checks has, when it exits, rendered
\* the summary and exactly one verdict.
C5_SummaryAlways ==
    (pc = "exited" /\ total_checks > 0) =>
        /\ summary # None
        /\ Len(PrintedVerdicts) = 1

\* The verdict the two lists call for.
VerdictFor(failed, warned) ==
    IF failed # << >> THEN FailuresLine
    ELSE IF warned # << >> THEN WarningsLine
    ELSE ReadyLine

\* C5 amended: a run whose prerequisites all succeeded has, when it exits,
\* rendered the summary (counts and both label lists) and exactly one
\* verdict, the one its lists call for; a run aborted at the prerequisites
\* has printed the abort notice and neither summary nor verdict.
C5_SummaryUnlessAborted ==
    (pc = "exited" /\ total_checks > 0) =>
        IF phase_ret["prereq"] = Some(TRUE)
        THEN /\ summary = Some([total |-> total_checks,
                                passed |-> passed_checks,
                                failed |-> Len(failed_checks),
                                warned |-> Len(warnings),
                                failures |-> failed_checks,
                                warning_list |-> warnings])
             /\ PrintedVerdicts = << VerdictFor(failed_checks, warnings) >>
             /\ AbortLine \notin Range(stdout)
        ELSE /\ summary = None
             /\ PrintedVerdicts = << >>
             /\ AbortLine \in Range(stdout)

C5_Witness ==
    /\ pc = "exited"
    /\ summary # None
    /\ PrintedVerdicts = << WarningsLine >>
    /\ Len(warnings) = 2

\* C6: after the prerequisites succeeded nothing is skipped or aborted: the
\* checks are invoked once each in the order of the phases and their tables,
\* and the summary is reached with total_checks = 18.
C6_NoAbortAfterPrerequisites ==
    /\ Len(AllDescriptions) = 18
    /\ IsPrefix(invoked, AllDescriptions)
    /\ phase_ret["prereq"] = Some(TRUE) =>
           /\ pc \in {"core", "quality", "docs", "package", "metadata",
                      "summary", "returned", "exited"}
           /\ pc = "core" => Len(invoked) = 3 + (idx - 1)
           /\ pc = "quality" => Len(invoked) = 3 + 5 + (idx - 1)
           /\ pc = "docs" => Len(invoked) = 3 + 5 + 3 + (idx - 1)
           /\ pc = "package" => Len(invoked) = 3 + 5 + 3 + 2 + (idx - 1)
           /\ pc = "metadata" => Len(invoked) = 3 + 5 + 3 + 2 + 2
           /\ pc \in {"summary", "returned", "exited"}
                  => invoked = AllDescriptions /\ total_checks = 18
           /\ pc \in {"returned", "exited"} => summary # None

C6_Witness ==
    /\ pc = "exited"
    /\ total_checks = 18
    /\ summary # None
    /\ "Basic compilation check - FAILED" \in Range(failed_checks)
    /\ "Basic documentation - TIMEOUT" \in Range(warnings)

\* The child of the step's subprocess.run exited with 0 within the timeout.
ZeroExit(b) == b.kind = "spawned" /\ b.duration <= TIMEOUT /\ b.returncode = 0

\* C7: one run_command invocation adds exactly 1 to total_checks and changes
\* exactly one other field: passed_checks on a zero exit, else the list the
\* critical flag selects, by one appended label.
C7_RunCommandFrame ==
    [][RunCommandStep =>
         /\ total_checks' = total_checks + 1
         /\ IF ZeroExit(last_run'[1])
            THEN /\ passed_checks' = passed_checks + 1
                 /\ failed_checks' = failed_checks
                 /\ warnings' = warnings
            ELSE /\ passed_checks' = passed_checks
                 /\ IF CriticalFlag[pc]
                    THEN /\ OneAppended(failed_checks, failed_checks')
                         /\ warnings' = warnings
                    ELSE /\ OneAppended(warnings, warnings')
                         /\ failed_checks' = failed_checks]_vars

C7_Witness ==
    /\ pc = "package"
    /\ idx = 2
    /\ last_run # None
    /\ last_run[1].kind = "raised"
    /\ Len(warnings) = 1
    /\ Len(failed_checks) = 2

\* C8: with Cargo.toml present and README.md and LICENSE absent, the metadata
\* phase appends 2 warnings and no critical failure, adds 1 to passed_checks
\* and 3 to total_checks.
C8_MetadataManifestOnly ==
    [][(MetadataStep /\ files = {"Cargo.toml"}) =>
         /\ warnings' = warnings \o << "README file missing", "License file missing" >>
         /\ failed_checks' = failed_checks
         /\ passed_checks' = passed_checks + 1
         /\ total_checks' = total_checks + 3]_vars

C8_Witness ==
    /\ files = {"Cargo.toml"}
    /\ pc = "summary"
    /\ total_checks = 18
    /\ Len(warnings) >= 2

\* The child of the step's subprocess.run did not end within the timeout.
TimedOut(b) == b.kind = "spawned" /\ b.duration > TIMEOUT

\* C9: a command that outlives the 300 second timeout is recorded once, as a
\* failure and not a pass, under a TIMEOUT label that differs from the labels
\* of a non-zero exit and of an execution error of the same check; the check
\* is not run again, and no child is alive when the next check starts.
C9_TimeoutRecordedOnce ==
    [][(RunCommandStep /\ TimedOut(last_run'[1])) =>
         LET description == CommandTable[pc][idx][2]
             label == description \o " - TIMEOUT"
             recorded == IF CriticalFlag[pc] THEN failed_checks' ELSE warnings'
         IN  /\ TIMEOUT = 300
             /\ passed_checks' = passed_checks
             /\ Len(failed_checks') + Len(warnings')
                    = Len(failed_checks) + Len(warnings) + 1
             /\ recorded[Len(recorded)] = label
             /\ Cardinality({i \in 1..Len(recorded) : recorded[i] = label}) = 1
             /\ label # description \o " - FAILED"
             /\ \A t \in ErrTexts : label # description \o " - ERROR: " \o t
             /\ \A b \in Behaviours :
                    ~TimedOut(b) /\ ~ZeroExit(b)
                        => error_msg(description, b) # recorded[Len(recorded)]
             /\ invoked' = Append(invoked, description)
             /\ description \notin Range(invoked)
             /\ idx' = idx + 1
             /\ pc' = pc
             /\ children' = 0]_vars

C9_Witness ==
    /\ pc = "core"
    /\ idx = 3
    /\ last_run # None
    /\ TimedOut(last_run[1])
    /\ failed_checks = << "Full build - TIMEOUT" >>
    /\ children = 0

\* C10: the result of run_all_checks is decided by the two lists alone, not
\* by checks_passed; when it is True every phase function returned True and
\* checks_passed is True (the converse fails: see the witness).
C10_VerdictFromLists ==
    /\ ret = Some(TRUE)
           => /\ checks_passed
              /\ \A p \in Phases : phase_ret[p] = Some(TRUE)
    /\ summary # None
           => /\ ret # None
              /\ ret[1] <=> (failed_checks = << >> /\ warnings = << >>)

\* A run in which every phase function returned True and that still
\* returned False.
C10_Witness ==
    /\ summary # None
    /\ ret = Some(FALSE)
    /\ checks_passed
    /\ \A p \in Phases : phase_ret[p] = Some(TRUE)
    /\ files = {"Cargo.toml", "LICENSE"}

====
